---- MODULE Spec2Model ----
(***************************************************************************)
(* raw-to-jpeg: conversion of a raw frame (ImageRawAny) to a JPEG frame    *)
(* (ImageJpeg) by rgb_to_jpeg (src/src/lib.rs, copied in src/src/main.rs)  *)
(* and the receive-convert-publish loop of src/src/main.rs.                *)
(*                                                                         *)
(* Option<T> values are sequences of length 0 (None) or 1 (Some(x)),       *)
(* except the opaque header, which is the string "None" or a header name.  *)
(* Byte buffers are sequences over 0..255; Rust offset k is index k+1.     *)
(***************************************************************************)
EXTENDS Integers, Sequences, FiniteSets, TLC

VARIABLES pc, cfg, jpeg_quality, compressor, sample, msg, result,
          received, outcomes, published, log

vars == <<pc, cfg, jpeg_quality, compressor, sample, msg, result,
          received, outcomes, published, log>>

\* ------------------------------------------------------------------ bounds
MaxWidth == 4
MaxHeight == 2
MaxFrames == 2

\* ------------------------------------------------------- program constants
DefaultQuality == 90
MaxQuality == 100
U8Max == 255
SOI0 == 255
SOI1 == 216

\* --------------------------------------------------------------- helpers
None == <<>>
Some(x) == <<x>>

Variants == {"Rgb888", "Rgba8888", "Yuv420", "Yuv422", "Yuv444", "Nv12"}

\* &s[from..to] with Rust's half-open, zero-based bounds
Slice(s, from, to) == SubSeq(s, from + 1, to)

RECURSIVE SumBytes(_)
SumBytes(s) == IF s = <<>> THEN 0 ELSE Head(s) + SumBytes(Tail(s))

\* a buffer of len bytes whose contents differ from offset to offset
Buffer(len, seed) == [i \in 1..len |-> (seed + i - 1) % 256]

\* ------------------------------------------------ the encoder (turbojpeg)
\* The codec is an external library; what is modelled is its interface as
\* the call sites use it: the geometry it is handed, the least buffer length
\* that geometry needs, and its three outcomes.
PAD(v, p) == ((v + p - 1) \div p) * p

BytesPerPixel(format) == IF format = "RGB" THEN 3 ELSE 4

HFactor(subsamp) == IF subsamp = "None" THEN 1 ELSE 2
VFactor(subsamp) == IF subsamp = "Sub2x2" THEN 2 ELSE 1

\* least length of a planar buffer: luma plane and two chroma planes, the
\* dimensions rounded up to whole chroma samples
YuvPixelsLen(width, align, height, subsamp) ==
    LET pw == PAD(width, HFactor(subsamp))
        ph == PAD(height, VFactor(subsamp))
    IN  PAD(pw, align) * ph
        + 2 * (PAD(pw \div HFactor(subsamp), align) * (ph \div VFactor(subsamp)))

\* the buffer covers the geometry of the call
CallFits(call) ==
    IF call.path = "packed"
    THEN /\ call.pitch >= call.width * BytesPerPixel(call.format)
         /\ \/ call.height = 0
            \/ call.pitch * (call.height - 1)
                 + call.width * BytesPerPixel(call.format) <= Len(call.pixels)
    ELSE YuvPixelsLen(call.width, call.align, call.height, call.subsamp)
           <= Len(call.pixels)

\* stand-in for the compressed image: the start-of-image marker, then bytes
\* that are a fixed function of everything the encoder was given
JpegData(call, quality) ==
    <<SOI0, SOI1, quality % 256, call.width % 256, call.height % 256,
      Len(call.pixels) % 256, SumBytes(call.pixels) % 256>>

\* compress_to_vec / compress_yuv_to_vec.  A buffer that does not cover the
\* geometry breaks the encoder's precondition: it either reports an error or
\* aborts the process (panic), and the model does not pick one.
Compress(call, session) ==
    IF ~CallFits(call)
    THEN {[status |-> "err", data |-> <<>>], [status |-> "abort", data |-> <<>>]}
    ELSE IF session.quality \notin 0..MaxQuality
    THEN {[status |-> "err", data |-> <<>>]}
    ELSE {[status |-> "ok", data |-> JpegData(call, session.quality)]}

PackedCall(pixels, width, pitch, height, format) ==
    [path |-> "packed", pixels |-> pixels, width |-> width, height |-> height,
     pitch |-> pitch, format |-> format, align |-> 0, subsamp |-> "n/a"]

PlanarCall(pixels, width, align, height, subsamp) ==
    [path |-> "planar", pixels |-> pixels, width |-> width, height |-> height,
     pitch |-> 0, format |-> "n/a", align |-> align, subsamp |-> subsamp]

\* ---------------------------------------------------- results of rgb_to_jpeg
\* status: "ok" (Ok(ImageJpeg)), "err" (Err(..)), "abort" (panic);
\* calls: the encoder calls made; jpeg: the ImageJpeg returned, if any
ErrResult(kind, calls) ==
    [status |-> "err", err |-> kind, calls |-> calls, jpeg |-> None]

AbortResult(calls) ==
    [status |-> "abort", err |-> "none", calls |-> calls, jpeg |-> None]

OkResult(header, data, calls) ==
    [status |-> "ok", err |-> "none", calls |-> calls,
     jpeg |-> Some([header |-> header, data |-> data])]

NoResult == [status |-> "none", err |-> "none", calls |-> <<>>, jpeg |-> None]

\* ------------------------------------------------- rgb_to_jpeg (src/lib.rs)
\* `let jpeg_data = compressor.compress..(image)?;
\*  Ok(ImageJpeg { header: rgb_any.header.clone(), data: jpeg_data })`
\* A mutant that copies the header of the inner image message instead.
EncodeAndWrapInnerHeader(rgb_any, call, session) ==
    { IF o.status = "ok"
        THEN OkResult(rgb_any.image[1].header, o.data, <<call>>)
        ELSE IF o.status = "err" THEN ErrResult("EncodeFailure", <<call>>)
        ELSE AbortResult(<<call>>) : o \in Compress(call, session) }

EncodeAndWrap(rgb_any, call, session) ==
    { IF o.status = "ok"
        THEN OkResult(rgb_any.header, o.data, <<call>>)
        ELSE IF o.status = "err" THEN ErrResult("EncodeFailure", <<call>>)
        ELSE AbortResult(<<call>>) : o \in Compress(call, session) }

\* A mutant with the RGBA stride on the RGB arm.
Rgb888ImageWidePitch(rgb888) ==
    PackedCall(rgb888.data, rgb888.width, rgb888.width * 4, rgb888.height, "RGB")

Rgb888Image(rgb888) ==
    PackedCall(rgb888.data, rgb888.width, rgb888.width * 3, rgb888.height, "RGB")

Rgba8888Image(rgba8888) ==
    PackedCall(rgba8888.data, rgba8888.width, rgba8888.width * 4,
               rgba8888.height, "RGBA")

Yuv420Image(yuv420) ==
    PlanarCall(yuv420.data, yuv420.width, 1, yuv420.height, "Sub2x2")

\* A mutant that says the 4:2:2 planes are not subsampled.
Yuv422ImageNoSubsamp(yuv422) ==
    PlanarCall(yuv422.data, yuv422.width, 1, yuv422.height, "None")

Yuv422Image(yuv422) ==
    PlanarCall(yuv422.data, yuv422.width, 1, yuv422.height, "Sub2x1")

Yuv444Image(yuv444) ==
    PlanarCall(yuv444.data, yuv444.width, 1, yuv444.height, "None")

y_size(width, height) == width * height

uv_size(width, height) == y_size(width, height) \div 2

\* A mutant of the length check that only asks for the Y plane.
Nv12TooSmallYOnly(len, width, height) == len < y_size(width, height)

\* `if nv12_data.len() < y_size + uv_size`
Nv12TooSmall(len, width, height) ==
    len < y_size(width, height) + uv_size(width, height)

\* `&nv12_data[y_size..y_size + uv_size]`
uv_plane(nv12_data, width, height) ==
    Slice(nv12_data, y_size(width, height),
          y_size(width, height) + uv_size(width, height))

\* `for i in (0..uv_size).step_by(2)`: the offsets 0, 2, 4, .. below n
EvenOffsets(n) == {i \in 0..(n - 1) : i % 2 = 0}

\* `for i in (1..uv_size).step_by(2)`: the offsets 1, 3, 5, .. below n
OddOffsets(n) == {i \in 0..(n - 1) : i % 2 = 1}

\* the bytes of uv at the offsets of offs, in increasing order of offset
RECURSIVE PushAll(_, _)
PushAll(uv, offs) ==
    IF offs = {} THEN <<>>
    ELSE LET i == CHOOSE x \in offs : \A y \in offs : x <= y
         IN  <<uv[i + 1]>> \o PushAll(uv, offs \ {i})

\* A mutant that leaves the chroma bytes interleaved.
yuv420_data_interleaved(nv12_data, width, height) ==
    Slice(nv12_data, 0, y_size(width, height)) \o uv_plane(nv12_data, width, height)

\* A mutant that pushes the V bytes before the U bytes.
yuv420_data_v_first(nv12_data, width, height) ==
    LET uv == uv_plane(nv12_data, width, height)
        n  == uv_size(width, height)
    IN  Slice(nv12_data, 0, y_size(width, height))
          \o PushAll(uv, OddOffsets(n))
          \o PushAll(uv, EvenOffsets(n))

\* the planar buffer built from the NV12 buffer: Y, then U, then V
yuv420_data(nv12_data, width, height) ==
    LET uv == uv_plane(nv12_data, width, height)
        n  == uv_size(width, height)
    IN  Slice(nv12_data, 0, y_size(width, height))
          \o PushAll(uv, EvenOffsets(n))
          \o PushAll(uv, OddOffsets(n))

Nv12Image(nv12) ==
    PlanarCall(yuv420_data(nv12.data, nv12.width, nv12.height),
               nv12.width, 1, nv12.height, "Sub2x2")

\* A mutant that answers an absent variant with an empty JPEG.
NoImageEmptyJpeg == OkResult("None", <<>>, <<>>)

\* `None => Err(anyhow!("No image data in ImageRawAny"))`
NoImage == ErrResult("UnsupportedLayout", <<>>)

\* The set of results the call can have (one, unless the encoder is handed a
\* buffer that does not cover the geometry).
rgb_to_jpeg(rgb_any, session) ==
    IF rgb_any.image = None THEN {NoImage}
    ELSE LET img == rgb_any.image[1] IN
      CASE img.tag = "Rgb888" ->
             EncodeAndWrap(rgb_any, Rgb888Image(img), session)
        [] img.tag = "Rgba8888" ->
             EncodeAndWrap(rgb_any, Rgba8888Image(img), session)
        [] img.tag = "Yuv420" ->
             EncodeAndWrap(rgb_any, Yuv420Image(img), session)
        [] img.tag = "Yuv422" ->
             EncodeAndWrap(rgb_any, Yuv422Image(img), session)
        [] img.tag = "Yuv444" ->
             EncodeAndWrap(rgb_any, Yuv444Image(img), session)
        [] img.tag = "Nv12" ->
             IF Nv12TooSmall(Len(img.data), img.width, img.height)
             THEN {ErrResult("InsufficientData", <<>>)}
             ELSE IF y_size(img.width, img.height)
                       + uv_size(img.width, img.height) > Len(img.data)
             THEN {AbortResult(<<>>)}  \* slice index out of range: panic
             ELSE EncodeAndWrap(rgb_any, Nv12Image(img), session)

\* --------------------------------------------------------------- inputs
Headers == {"None", "h1", "h2"}

\* the buffer length the data model gives each variant
NominalLen(tag, width, height) ==
    CASE tag = "Rgb888"   -> width * height * 3
      [] tag = "Rgba8888" -> width * height * 4
      [] tag = "Yuv420"   -> width * height + 2 * ((width * height) \div 4)
      [] tag = "Yuv422"   -> width * height + 2 * ((width * height) \div 2)
      [] tag = "Yuv444"   -> width * height * 3
      [] tag = "Nv12"     -> width * height + (width * height) \div 2

RawImage(tag, header, width, height, data) ==
    [tag |-> tag, header |-> header, width |-> width, height |-> height,
     data |-> data]

ImageRawAny(header, image) == [header |-> header, image |-> image]

\* the buffer lengths tried for a variant and geometry: every length from
\* the empty buffer to one byte more than the nominal one (all), or only the
\* nominal length and one byte less
Lens(all, tag, width, height) ==
    IF all THEN 0..(NominalLen(tag, width, height) + 1)
    ELSE {NominalLen(tag, width, height) - 1, NominalLen(tag, width, height)}

\* frames of every variant over the given geometries, each with the buffer
\* lengths of Lens, plus the frames with no variant
FramesOf(widths, heights, headers, inner, seeds, all) ==
    { ImageRawAny(h, None) : h \in headers }
    \cup
    UNION { { ImageRawAny(h, Some(RawImage(g[1], ih, g[2], g[3], Buffer(n, s)))) :
                h \in headers, ih \in inner, s \in seeds,
                n \in Lens(all, g[1], g[2], g[3]) } :
            g \in Variants \X widths \X heights }

ConvFrames ==
    FramesOf(1..MaxWidth, 1..MaxHeight, Headers, {"None", "h2"}, {0, 250}, TRUE)

ConvQualities == {0, DefaultQuality, MaxQuality}

NoFrame == ImageRawAny("None", None)

\* ------------------------------------------- rgb_to_jpeg called on its own
\* (as src/tests/conversion_tests.rs calls it: a frame, a session with its
\* quality set, one call)
ConvInit ==
    /\ pc = "call"
    /\ msg \in ConvFrames
    /\ compressor \in {Some([quality |-> q]) : q \in ConvQualities}
    /\ result = NoResult
    /\ cfg = [present |-> FALSE, int |-> FALSE, value |-> 0]
    /\ jpeg_quality = None
    /\ sample = [kind |-> "none", frame |-> NoFrame]
    /\ received = <<>>
    /\ outcomes = <<>>
    /\ published = <<>>
    /\ log = <<>>

ConvCall ==
    /\ pc = "call"
    /\ \E r \in rgb_to_jpeg(msg, compressor[1]) : result' = r
    /\ pc' = "returned"
    /\ UNCHANGED <<cfg, jpeg_quality, compressor, sample, msg, received,
                   outcomes, published, log>>

ConvNext == ConvCall

ConvSpec == ConvInit /\ [][ConvNext]_vars

\* ------------------------------------- rgb_to_jpeg (the copy in src/main.rs)
\* `Ok(ImageJpeg { header: rgb_any.header.clone(), data: jpeg_data })` after
\* the encoder call of an arm
main_finish(rgb_any, call, session) ==
    { CASE o.status = "ok"    -> OkResult(rgb_any.header, o.data, <<call>>)
        [] o.status = "err"   -> ErrResult("EncodeFailure", <<call>>)
        [] o.status = "abort" -> AbortResult(<<call>>)
      : o \in Compress(call, session) }

\* A mutant of the copy whose NV12 arm names the 4:2:2 subsampling.
main_nv12_sub2x1(rgb_any, nv12, session) ==
    LET width   == nv12.width
        height  == nv12.height
        ysz     == width * height
        uvsz    == ysz \div 2
        len     == Len(nv12.data)
        uv      == [i \in 1..uvsz |-> nv12.data[ysz + i]]
        nU      == (uvsz + 1) \div 2
        nV      == uvsz \div 2
        planar  == [i \in 1..ysz |-> nv12.data[i]]
                     \o [k \in 1..nU |-> uv[2 * k - 1]]
                     \o [k \in 1..nV |-> uv[2 * k]]
    IN  IF len < ysz + uvsz
        THEN {ErrResult("InsufficientData", <<>>)}
        ELSE main_finish(rgb_any,
                         PlanarCall(planar, width, 1, height, "Sub2x1"), session)

\* the NV12 arm: length check, Y plane, U bytes, V bytes, planar call
main_nv12(rgb_any, nv12, session) ==
    LET width   == nv12.width
        height  == nv12.height
        ysz     == width * height
        uvsz    == ysz \div 2
        len     == Len(nv12.data)
        uv      == [i \in 1..uvsz |-> nv12.data[ysz + i]]
        nU      == (uvsz + 1) \div 2
        nV      == uvsz \div 2
        planar  == [i \in 1..ysz |-> nv12.data[i]]
                     \o [k \in 1..nU |-> uv[2 * k - 1]]
                     \o [k \in 1..nV |-> uv[2 * k]]
    IN  IF len < ysz + uvsz
        THEN {ErrResult("InsufficientData", <<>>)}
        ELSE main_finish(rgb_any,
                         PlanarCall(planar, width, 1, height, "Sub2x2"), session)

main_rgb_to_jpeg(rgb_any, session) ==
    IF rgb_any.image = None
    THEN {ErrResult("UnsupportedLayout", <<>>)}
    ELSE LET v == rgb_any.image[1] IN
      CASE v.tag = "Rgb888" ->
             main_finish(rgb_any,
               PackedCall(v.data, v.width, v.width * 3, v.height, "RGB"), session)
        [] v.tag = "Rgba8888" ->
             main_finish(rgb_any,
               PackedCall(v.data, v.width, v.width * 4, v.height, "RGBA"), session)
        [] v.tag = "Yuv420" ->
             main_finish(rgb_any,
               PlanarCall(v.data, v.width, 1, v.height, "Sub2x2"), session)
        [] v.tag = "Yuv422" ->
             main_finish(rgb_any,
               PlanarCall(v.data, v.width, 1, v.height, "Sub2x1"), session)
        [] v.tag = "Yuv444" ->
             main_finish(rgb_any,
               PlanarCall(v.data, v.width, 1, v.height, "None"), session)
        [] v.tag = "Nv12" -> main_nv12(rgb_any, v, session)

\* ------------------------------------------------ the service (src/main.rs)
\* the jpeg_quality entry of the configuration: absent, or a value whose
\* text is the decimal integer `value` (int) or is not an integer at all
ConfigValues == {-1, 0, DefaultQuality, MaxQuality, MaxQuality + 1, U8Max, U8Max + 1}

Configs ==
    {[present |-> FALSE, int |-> FALSE, value |-> 0],
     [present |-> TRUE, int |-> FALSE, value |-> 0]}
    \cup {[present |-> TRUE, int |-> TRUE, value |-> v] : v \in ConfigValues}

\* `val.to_string().parse::<u8>()`: Some(n) for the text of an integer in
\* 0..255, None otherwise
ParseU8(c) == IF c.int /\ c.value \in 0..U8Max THEN Some(c.value) ELSE None

\* the samples a subscriber can deliver: the encoding of a frame, or bytes
\* that do not decode
LoopFrames == FramesOf({2}, {2}, {"None", "h1"}, {"h2"}, {0}, FALSE)

Samples ==
    {[kind |-> "frame", frame |-> f] : f \in LoopFrames}
    \cup {[kind |-> "garbage", frame |-> NoFrame]}

NoSample == [kind |-> "none", frame |-> NoFrame]

\* ProtobufEncoder::<ImageJpeg>::encode
EncodeJpeg(jpeg) == [proto |-> "ImageJpeg", header |-> jpeg.header, data |-> jpeg.data]

Init ==
    /\ pc = "load"
    /\ cfg \in Configs
    /\ jpeg_quality = None
    /\ compressor = None
    /\ sample = NoSample
    /\ msg = NoFrame
    /\ result = NoResult
    /\ received = <<>>
    /\ outcomes = <<>>
    /\ published = <<>>
    /\ log = <<>>

\* load_config_from_default_env()? returns an error
LoadConfigFails ==
    /\ pc = "load"
    /\ pc' = "exit_err"
    /\ UNCHANGED <<cfg, jpeg_quality, compressor, sample, msg, result,
                   received, outcomes, published, log>>

\* A mutant that clamps a value above 100 instead of rejecting it.
QualityOfClamped(c) ==
    IF ~c.present THEN Some(DefaultQuality)
    ELSE IF ParseU8(c) = None THEN None
    ELSE IF ParseU8(c)[1] > MaxQuality THEN Some(MaxQuality)
    ELSE ParseU8(c)

\* the `match application_config.config.get("jpeg_quality")`: Some(quality),
\* or None where main returns an error
QualityOf(c) ==
    IF ~c.present THEN Some(DefaultQuality)
    ELSE IF ParseU8(c) = None THEN None
    ELSE IF ParseU8(c)[1] > MaxQuality THEN None
    ELSE ParseU8(c)

ReadQuality ==
    /\ pc = "load"
    /\ IF QualityOf(cfg) = None
       THEN /\ pc' = "exit_err"
            /\ UNCHANGED <<jpeg_quality, log>>
       ELSE /\ jpeg_quality' = QualityOf(cfg)
            /\ log' = IF cfg.present THEN log
                      ELSE Append(log, "jpeg_quality not found in config")
            /\ pc' = "connect"
    /\ UNCHANGED <<cfg, compressor, sample, msg, result, received, outcomes,
                   published>>

\* the zenoh interface, session, subscriber and publisher are set up
Connect ==
    /\ pc = "connect"
    /\ pc' = "session"
    /\ UNCHANGED <<cfg, jpeg_quality, compressor, sample, msg, result,
                   received, outcomes, published, log>>

\* one of the four set-up calls returns an error
ConnectFails ==
    /\ pc = "connect"
    /\ pc' = "exit_err"
    /\ UNCHANGED <<cfg, jpeg_quality, compressor, sample, msg, result,
                   received, outcomes, published, log>>

\* `Compressor::new()?; compressor.set_quality(jpeg_quality as i32)?`
CreateSession ==
    /\ pc = "session"
    /\ compressor' = Some([quality |-> jpeg_quality[1]])
    /\ pc' = "recv"
    /\ UNCHANGED <<cfg, jpeg_quality, sample, msg, result, received,
                   outcomes, published, log>>

\* the library refuses to create the session or to take the quality
CreateSessionFails ==
    /\ pc = "session"
    /\ pc' = "exit_err"
    /\ UNCHANGED <<cfg, jpeg_quality, compressor, sample, msg, result,
                   received, outcomes, published, log>>

\* `while let Ok(sample) = subscriber.recv_async().await`
Recv ==
    /\ pc = "recv"
    /\ Len(received) < MaxFrames
    /\ \E s \in Samples :
         /\ sample' = s
         /\ received' = Append(received, s)
    /\ pc' = "decode"
    /\ UNCHANGED <<cfg, jpeg_quality, compressor, msg, result, outcomes,
                   published, log>>

\* recv_async returns Err: the loop ends and the macro yields Ok(())
RecvClosed ==
    /\ pc = "recv"
    /\ pc' = "done"
    /\ UNCHANGED <<cfg, jpeg_quality, compressor, sample, msg, result,
                   received, outcomes, published, log>>

\* `image_raw_encoder.decode(..)` and its match
Decode ==
    /\ pc = "decode"
    /\ IF sample.kind = "frame"
       THEN /\ msg' = sample.frame
            /\ log' = Append(log, "Received")
            /\ pc' = "convert"
       ELSE /\ log' = Append(log, "Decode error")
            /\ pc' = "recv"
            /\ UNCHANGED msg
    /\ UNCHANGED <<cfg, jpeg_quality, compressor, sample, result, received,
                   outcomes, published>>

\* A mutant in which a failed conversion leaves the session at quality 0.
ConvertDegrades ==
    /\ pc = "convert"
    /\ \E r \in main_rgb_to_jpeg(msg, compressor[1]) :
         /\ result' = r
         /\ outcomes' = Append(outcomes, [at |-> Len(received), result |-> r,
                                          quality |-> compressor[1].quality])
         /\ CASE r.status = "ok" ->
                   /\ pc' = "publish"
                   /\ UNCHANGED <<log, compressor>>
              [] r.status = "err" ->
                   /\ log' = Append(log, "Error converting to JPEG")
                   /\ compressor' = Some([quality |-> 0])
                   /\ pc' = "recv"
              [] r.status = "abort" ->
                   /\ pc' = "abort"
                   /\ UNCHANGED <<log, compressor>>
    /\ UNCHANGED <<cfg, jpeg_quality, sample, msg, received, published>>

\* `match rgb_to_jpeg(&msg, &mut compressor)`; a panic ends the process.
\* outcomes keeps, for each conversion, the index of the frame, the result
\* and the quality the session had
Convert ==
    /\ pc = "convert"
    /\ \E r \in main_rgb_to_jpeg(msg, compressor[1]) :
         /\ result' = r
         /\ outcomes' = Append(outcomes, [at |-> Len(received), result |-> r,
                                          quality |-> compressor[1].quality])
         /\ CASE r.status = "ok" ->
                   /\ pc' = "publish"
                   /\ UNCHANGED log
              [] r.status = "err" ->
                   /\ log' = Append(log, "Error converting to JPEG")
                   /\ pc' = "recv"
              [] r.status = "abort" ->
                   /\ pc' = "abort"
                   /\ UNCHANGED log
    /\ UNCHANGED <<cfg, jpeg_quality, compressor, sample, msg, received,
                   published>>

\* A mutant that puts the new payload ahead of the earlier ones.
PublishFront ==
    /\ pc = "publish"
    /\ published' = <<EncodeJpeg(result.jpeg[1])>> \o published
    /\ pc' = "recv"
    /\ UNCHANGED <<cfg, jpeg_quality, compressor, sample, msg, result,
                   received, outcomes, log>>

\* `publisher.put(&jpeg_encoded).await?`: published holds the payloads handed
\* to put, in the order of the calls
Publish ==
    /\ pc = "publish"
    /\ published' = Append(published, EncodeJpeg(result.jpeg[1]))
    /\ pc' = "recv"
    /\ UNCHANGED <<cfg, jpeg_quality, compressor, sample, msg, result,
                   received, outcomes, log>>

\* put returns an error, which ends the loop and main
PublishFails ==
    /\ pc = "publish"
    /\ published' = Append(published, EncodeJpeg(result.jpeg[1]))
    /\ pc' = "exit_err"
    /\ UNCHANGED <<cfg, jpeg_quality, compressor, sample, msg, result,
                   received, outcomes, log>>

Next ==
    \/ LoadConfigFails
    \/ ReadQuality
    \/ Connect
    \/ ConnectFails
    \/ CreateSession
    \/ CreateSessionFails
    \/ Recv
    \/ RecvClosed
    \/ Decode
    \/ Convert
    \/ Publish
    \/ PublishFails

Spec == Init /\ [][Next]_vars

\* ================================================= properties of ConvSpec
Returned == pc = "returned"

HasImage == msg.image # None

Img == msg.image[1]

IsNv12 == HasImage /\ Img.tag = "Nv12"

\* the NV12 buffer holds at least width*height + width*height/2 bytes
Nv12LongEnough ==
    Len(Img.data) >= Img.width * Img.height + (Img.width * Img.height) \div 2

\* C1: for an NV12 frame that passes the length check, the buffer handed to
\* the planar encoder holds, after its first width*height bytes, the bytes
\* at the even offsets of the interleaved UV region in order, followed by
\* the bytes at its odd offsets in order, and nothing else.
C1_ChromaDeinterleaved ==
    (Returned /\ IsNv12 /\ Nv12LongEnough) =>
        /\ Len(result.calls) = 1
        /\ LET px == result.calls[1].pixels
               ys == Img.width * Img.height
               n  == ys \div 2
               nU == (n + 1) \div 2
           IN  /\ Len(px) = ys + n
               /\ \A k \in 0..(n - 1) :
                    px[ys + 1 + (IF k % 2 = 0 THEN k \div 2
                                 ELSE nU + (k - 1) \div 2)]
                      = Img.data[ys + 1 + k]

\* an 8-pixel NV12 frame (two U/V pairs) was converted and its chroma bytes
\* were moved
C1_Witness ==
    /\ Returned /\ IsNv12 /\ Nv12LongEnough
    /\ Img.width * Img.height = 8
    /\ result.status = "ok"
    /\ Slice(result.calls[1].pixels, 8, 12) # Slice(Img.data, 8, 12)
    /\ result.calls[1].pixels[10] = Img.data[11]

\* C2: an NV12 buffer shorter than y_size + uv_size gets an InsufficientData
\* error, with no encoder call and no panic; a buffer of at least that
\* length is not rejected for its size and reaches the encoder.  For 176x144
\* the limit is 38016 bytes: 38015 is rejected, 38016 is not.
C2_Nv12LengthCheck ==
    /\ (Returned /\ IsNv12) =>
         IF Len(Img.data) < Img.width * Img.height
                              + (Img.width * Img.height) \div 2
         THEN /\ result.status = "err"
              /\ result.err = "InsufficientData"
              /\ result.calls = <<>>
              /\ result.jpeg = None
         ELSE /\ result.err # "InsufficientData"
              /\ Len(result.calls) = 1
    /\ Nv12TooSmall(38015, 176, 144)
    /\ ~Nv12TooSmall(38016, 176, 144)

\* an NV12 frame one byte short of the limit was rejected
C2_Witness ==
    /\ Returned /\ IsNv12
    /\ Img.width * Img.height = 8
    /\ Len(Img.data) = 11
    /\ result.err = "InsufficientData"

\* C3: a frame with no image variant gets an UnsupportedLayout error, no
\* encoder call and no ImageJpeg.
C3_AbsentVariant ==
    (Returned /\ ~HasImage) =>
        /\ result.status = "err"
        /\ result.err = "UnsupportedLayout"
        /\ result.calls = <<>>
        /\ result.jpeg = None

C3_Witness ==
    /\ Returned /\ ~HasImage
    /\ msg.header = "h1"
    /\ result.err = "UnsupportedLayout"

\* C4: the call leaves the input frame as it was, and a successful call
\* returns the header the input frame had (absent if it was absent).
C4_HeaderPassThrough ==
    [][pc = "call" =>
         /\ msg' = msg
         /\ result'.status = "ok" => result'.jpeg[1].header = msg.header]_vars

\* a conversion succeeded on a frame whose own header differs from the
\* header inside its image message
C4_Witness ==
    /\ Returned /\ HasImage
    /\ result.status = "ok"
    /\ msg.header = "h1"
    /\ Img.header = "h2"
    /\ result.jpeg[1].header = "h1"

\* C5: for every variant, a buffer shorter than the data model's length for
\* the geometry gets an InsufficientData error from rgb_to_jpeg, and the
\* encoder is not called.
C5_EveryVariantChecksLength ==
    (Returned /\ HasImage
       /\ Len(Img.data) < NominalLen(Img.tag, Img.width, Img.height)) =>
        /\ result.status = "err"
        /\ result.err = "InsufficientData"
        /\ result.calls = <<>>

\* the geometry the data model defines: positive dimensions, and whole
\* chroma samples where the chroma planes are subsampled
SpecifiedGeometry(tag, width, height) ==
    /\ width > 0
    /\ height > 0
    /\ tag \in {"Yuv420", "Yuv422", "Nv12"} => width % 2 = 0
    /\ tag \in {"Yuv420", "Nv12"} => height % 2 = 0

ExpectedCall(tag, width, height, pixels) ==
    CASE tag = "Rgb888" ->
           [path |-> "packed", pixels |-> pixels, width |-> width,
            height |-> height, pitch |-> width * 3, format |-> "RGB",
            align |-> 0, subsamp |-> "n/a"]
      [] tag = "Rgba8888" ->
           [path |-> "packed", pixels |-> pixels, width |-> width,
            height |-> height, pitch |-> width * 4, format |-> "RGBA",
            align |-> 0, subsamp |-> "n/a"]
      [] tag \in {"Yuv420", "Nv12"} ->
           [path |-> "planar", pixels |-> pixels, width |-> width,
            height |-> height, pitch |-> 0, format |-> "n/a",
            align |-> 1, subsamp |-> "Sub2x2"]
      [] tag = "Yuv422" ->
           [path |-> "planar", pixels |-> pixels, width |-> width,
            height |-> height, pitch |-> 0, format |-> "n/a",
            align |-> 1, subsamp |-> "Sub2x1"]
      [] tag = "Yuv444" ->
           [path |-> "planar", pixels |-> pixels, width |-> width,
            height |-> height, pitch |-> 0, format |-> "n/a",
            align |-> 1, subsamp |-> "None"]

\* C10: every variant goes to the encoder path and geometry the design names,
\* with the frame's width and height; the five layouts other than NV12 hand
\* over the input buffer itself; a successful conversion made exactly one
\* encoder call, and no conversion made more than one.
C10_Dispatch ==
    Returned =>
        /\ Len(result.calls) <= 1
        /\ result.status = "ok" => Len(result.calls) = 1
        /\ (HasImage /\ Img.tag # "Nv12") =>
              result.calls =
                <<ExpectedCall(Img.tag, Img.width, Img.height, Img.data)>>
        /\ (IsNv12 /\ Nv12LongEnough) =>
              /\ Len(result.calls) = 1
              /\ result.calls[1] =
                   ExpectedCall("Nv12", Img.width, Img.height,
                                result.calls[1].pixels)

C10_Witness ==
    /\ Returned /\ HasImage
    /\ Img.tag = "Rgb888"
    /\ Img.width = 4 /\ Img.height = 2
    /\ result.status = "ok"
    /\ result.calls[1].pitch = 12
    /\ result.calls[1].pixels = Img.data

\* ===================================================== properties of Spec
\* the step handles a frame that fails: a sample that does not decode, or a
\* conversion that does not return Ok
FailingStep ==
    \/ pc = "decode" /\ sample.kind = "garbage" /\ pc' # "decode"
    \/ pc = "convert" /\ result'.status \in {"err", "abort"} /\ pc' # "convert"

\* C6: a frame that fails does not end the stream: the failure is logged,
\* nothing is published for it, and the loop is back at receiving.
C6_FailedFrameKeepsStream ==
    [][FailingStep =>
         /\ pc' = "recv"
         /\ published' = published
         /\ Len(log') = Len(log) + 1]_vars

\* C7: the quality is 90 when the key is absent; a configured value that is
\* not an integer in 0..100 ends main with an error before a session exists
\* or a frame is received, and is never replaced by another value; a value
\* in 0..100 is the session's quality.
ConfigInRange == cfg.int /\ cfg.value \in 0..100

C7_QualityConfig ==
    /\ (jpeg_quality # None /\ ~cfg.present) => jpeg_quality = <<90>>
    /\ (jpeg_quality # None /\ cfg.present) =>
          ConfigInRange /\ jpeg_quality = <<cfg.value>>
    /\ (cfg.present /\ ~ConfigInRange) =>
          /\ pc \in {"load", "exit_err"}
          /\ jpeg_quality = None
          /\ compressor = None
          /\ received = <<>>
    /\ compressor # None => compressor[1].quality = jpeg_quality[1]

\* main ended with an error on the value 101, with no session and no frame
C7_Witness ==
    /\ pc = "exit_err"
    /\ cfg.present /\ cfg.int /\ cfg.value = 101
    /\ compressor = None
    /\ received = <<>>

\* the conversion of frame f by the session succeeds
ConvOk(f, session) ==
    \E r \in main_rgb_to_jpeg(f, session) : r.status = "ok"

JpegOf(f, session) ==
    (CHOOSE r \in main_rgb_to_jpeg(f, session) : r.status = "ok").jpeg[1]

\* the payloads of the samples of rs that decode and convert, in order
RECURSIVE PayloadsOf(_, _)
PayloadsOf(rs, session) ==
    IF rs = <<>> THEN <<>>
    ELSE LET rest == PayloadsOf(Tail(rs), session)
             s    == Head(rs)
         IN  IF s.kind = "frame" /\ ConvOk(s.frame, session)
             THEN <<EncodeJpeg(JpegOf(s.frame, session))>> \o rest
             ELSE rest

\* the samples whose handling is over: all of them, but for the last one
\* while the loop is still between its receipt and the end of the iteration
Handled ==
    IF pc \in {"decode", "convert", "publish"}
    THEN SubSeq(received, 1, Len(received) - 1)
    ELSE received

PlanarLayout(px, data, ys, uvs, nU, nV) ==
    /\ Len(px) = ys + uvs
    /\ Len(px) = ys + nU + nV
    /\ \A i \in 1..ys : px[i] = data[i]
    /\ \A k \in 1..nU : px[ys + k] = data[ys + 2 * k - 1]
    /\ \A k \in 1..nV : px[ys + nU + k] = data[ys + 2 * k]

\* C11 as stated: for every NV12 frame that passes the length check the
\* normalized buffer is y_size + uv_size bytes long: the Y plane unchanged,
\* then exactly uv_size/2 U bytes, then exactly uv_size/2 V bytes.
C11_HalfAndHalf ==
    (Returned /\ IsNv12 /\ Nv12LongEnough) =>
        /\ Len(result.calls) = 1
        /\ LET ys  == Img.width * Img.height
               uvs == ys \div 2
           IN  PlanarLayout(result.calls[1].pixels, Img.data, ys, uvs,
                            uvs \div 2, uvs \div 2)

\* C11 as amended: the normalized buffer is y_size + uv_size bytes long: the
\* Y plane unchanged, then the uv_size/2 rounded up bytes at the even UV
\* offsets, then the uv_size/2 rounded down bytes at the odd UV offsets (the
\* two counts are both uv_size/2 exactly when uv_size is even).
C11_PlanarLayout ==
    (Returned /\ IsNv12 /\ Nv12LongEnough) =>
        /\ Len(result.calls) = 1
        /\ LET ys  == Img.width * Img.height
               uvs == ys \div 2
           IN  PlanarLayout(result.calls[1].pixels, Img.data, ys, uvs,
                            (uvs + 1) \div 2, uvs \div 2)

\* a 3x2 NV12 frame (uv_size = 3) was normalized: two U bytes, one V byte
C11_Witness ==
    /\ Returned /\ IsNv12 /\ Nv12LongEnough
    /\ Img.width = 3 /\ Img.height = 2
    /\ Len(result.calls) = 1
    /\ Len(result.calls[1].pixels) = 9
    /\ result.calls[1].pixels[8] = Img.data[9]
    /\ result.calls[1].pixels[9] = Img.data[8]

\* --------------------------------------------------- frame by frame
\* the session exists from before the first frame, with the configured
\* quality
SessionBeforeFrames ==
    /\ received # <<>> => compressor # None
    /\ compressor # None => compressor = Some([quality |-> QualityOf(cfg)[1]])

\* each conversion made so far was that of its own frame by a session of the
\* configured quality, whatever came before it
OwnFrameOnly ==
    \A k \in 1..Len(outcomes) :
        LET o == outcomes[k]
            f == received[o.at].frame
        IN  /\ received[o.at].kind = "frame"
            /\ o.quality = QualityOf(cfg)[1]
            /\ o.result \in main_rgb_to_jpeg(f, [quality |-> QualityOf(cfg)[1]])

\* two conversions of the same frame, after different earlier frames, agree
\* on success or failure, on the encoder call and on the quality
SameFrameSameOutcome ==
    \A i, j \in 1..Len(outcomes) :
        received[outcomes[i].at] = received[outcomes[j].at] =>
            /\ (outcomes[i].result.status = "ok")
                 <=> (outcomes[j].result.status = "ok")
            /\ outcomes[i].result.calls = outcomes[j].result.calls
            /\ outcomes[i].result.jpeg = outcomes[j].result.jpeg
            /\ outcomes[i].quality = outcomes[j].quality

\* C12: one session is created, with the configured quality, before the
\* first frame is received, and no later step changes it; whether a frame
\* converts, and the buffer, geometry and quality the encoder gets for it,
\* depend on that frame and the configured quality only, not on the frames
\* before it.
C12_FrameIndependence ==
    /\ [](SessionBeforeFrames /\ OwnFrameOnly /\ SameFrameSameOutcome)
    /\ [][compressor # None => compressor' = compressor]_vars

\* the same frame was converted twice, the second time after itself, with
\* the configured quality 100, and gave the same JPEG both times
C12_Witness ==
    /\ pc = "recv"
    /\ cfg.present /\ cfg.value = 100
    /\ Len(outcomes) = 2
    /\ received[1] = received[2]
    /\ outcomes[2].result.status = "ok"
    /\ outcomes[1].result = outcomes[2].result
    /\ outcomes[2].quality = 100

\* ------------------------------------------------ the two copies compared
\* C13: rgb_to_jpeg of lib.rs and rgb_to_jpeg of main.rs have the same
\* results on every frame and session: the same error or success, the same
\* encoder call with the same buffer and geometry, the same header and data;
\* what the one returned is what the other can return.
C13_CopiesAgree ==
    /\ rgb_to_jpeg(msg, compressor[1]) = main_rgb_to_jpeg(msg, compressor[1])
    /\ Returned => result \in main_rgb_to_jpeg(msg, compressor[1])

\* the lib.rs copy converted a 4x2 NV12 frame with a header, and the
\* main.rs copy gives that very result
C13_Witness ==
    /\ Returned /\ IsNv12 /\ Nv12LongEnough
    /\ Img.width = 4 /\ Img.height = 2
    /\ msg.header = "h2"
    /\ result.status = "ok"
    /\ main_rgb_to_jpeg(msg, compressor[1]) = {result}

====
